---- MODULE Spec2Model ----
(***************************************************************************)
(* Shared-memory single-producer/single-consumer ring buffer               *)
(* (SharedAtomicRingBuffer), in its two builds: the file-backed build      *)
(* (shared_mem_posix.go) and the paging-file-backed build.                 *)
(*                                                                         *)
(* Every atomic Load/Store of the source is one step.  Go's sync/atomic    *)
(* operations are sequentially consistent, so the interleaving of these    *)
(* steps is the set of executions of the two goroutines/processes.         *)
(***************************************************************************)
EXTENDS Integers, Sequences, FiniteSets

\* Number of slots.  The source sets 1024; the model checks a reduced ring.
bufferSize == 4
\* Number of Write calls the producer makes (main's producer loop bound).
MaxWrites == 6
\* Values passed to Write range over 0..MaxValue.
MaxValue == 1
\* Addresses MapViewOfFile may return range over 1..MaxAddr (0 is NULL).
MaxAddr == 2

Values == 0 .. MaxValue
Slots == 0 .. (bufferSize - 1)
ViewAddrs == 1 .. MaxAddr

\* unsafe.Sizeof(SharedAtomicRingBuffer{}) of the file-backed build:
\* bufferSize 8-byte slots and two 8-byte cursors.
SizeofRingBuffer == bufferSize * 8 + 16

\* unsafe.Sizeof(SharedAtomicRingBuffer{}) of the paging-file-backed build:
\* its struct has one more 8-byte field, addr uintptr.
SizeofRingBufferWin == bufferSize * 8 + 16 + 8

VARIABLES
    variant,        \* "posix" or "windows": which build runs
    buffer,         \* rb.buffer: slot index -> value
    writeIdx,       \* rb.writeIdx
    readIdx,        \* rb.readIdx
    pcW,            \* producer's position inside Write
    w_writeIdx,     \* Write's local writeIdx
    w_nextWriteIdx, \* Write's local nextWriteIdx
    w_value,        \* Write's argument
    pcR,            \* consumer's position inside Read
    r_readIdx,      \* Read's local readIdx
    r_value,        \* Read's local value
    written,        \* history: values passed to Write, in call order
    got,            \* history: values returned by Read, in return order
    unread,         \* history: slots published by Write, readIdx not yet moved past
    w_ret,          \* what the last Write call returned: "true", "false",
                    \* or "none" before any call returned
    r_ok,           \* the ok the last Read call returned, likewise
    fileExists,     \* the name exists: the file /tmp/<name>, or the named
                    \* file-mapping object of the paging-file-backed build
    fileSize,       \* length of the backing file (size of the mapping object)
    pcN,            \* position of the caller of NewSharedAtomicRingBuffer
                    \* (and of Close)
    fdOpen,         \* that caller holds an open descriptor (handle) of it
    mapped2,        \* that caller holds a mapping (view) of it
    created,        \* history: that call found no such name and created it
    n_addr,         \* NewSharedAtomicRingBuffer's local addr: where the view is
    addr            \* rb.addr, a field inside the paging-file-backed segment

ring == <<buffer, writeIdx, readIdx>>
producer == <<pcW, w_writeIdx, w_nextWriteIdx, w_value, written, w_ret>>
consumer == <<pcR, r_readIdx, r_value, got, r_ok>>
provider == <<fileExists, fileSize, pcN, fdOpen, mapped2, created, n_addr,
              addr>>
vars == <<variant, buffer, writeIdx, readIdx, pcW, w_writeIdx, w_nextWriteIdx,
          w_value, pcR, r_readIdx, r_value, written, got, unread, w_ret, r_ok,
          fileExists, fileSize, pcN, fdOpen, mapped2, created, n_addr, addr>>

\* Mutant of NextIdx: the modulo left out
NextIdxNoWrap(i) == i + 1

\* (i + 1) % bufferSize, the cursor advance of Write and Read
NextIdx(i) == (i + 1) % bufferSize

\* The size NewSharedAtomicRingBuffer asks for in the build that runs
SizeofBuild ==
    IF variant = "windows" THEN SizeofRingBufferWin ELSE SizeofRingBuffer

\* The pages of the mapping are backed by the file: they are accessible
\* only while the file is as long as the mapping.
Mapped == fileSize = SizeofBuild

ZeroBuffer == [i \in Slots |-> 0]

\* No goroutine has started an operation.
InitGoroutines ==
    /\ pcW = "idle"
    /\ w_writeIdx = 0
    /\ w_nextWriteIdx = 0
    /\ w_value = 0
    /\ pcR = "idle"
    /\ r_readIdx = 0
    /\ r_value = 0
    /\ written = <<>>
    /\ got = <<>>
    /\ unread = {}
    /\ w_ret = "none"
    /\ r_ok = "none"

\* No goroutine has started an operation; the file is mapped by this process
\* and no second process has called NewSharedAtomicRingBuffer.
InitProcs ==
    /\ InitGoroutines
    /\ fileExists = TRUE
    /\ fileSize = SizeofBuild
    /\ pcN = "idle"
    /\ fdOpen = FALSE
    /\ mapped2 = FALSE
    /\ created = FALSE
    /\ n_addr = 0
    /\ addr = 0

\* Before main() calls NewSharedAtomicRingBuffer: the name either does not
\* exist, or exists with the size and whatever contents an earlier run (or
\* another process using it) left.  The ring variables stand for the
\* contents of the segment and mean nothing while the name does not exist.
InitCreate ==
    /\ InitGoroutines
    /\ fileExists \in BOOLEAN
    /\ fileSize = IF fileExists THEN SizeofBuild ELSE 0
    /\ buffer \in [Slots -> Values]
    /\ writeIdx \in Slots
    /\ readIdx \in Slots
    /\ pcN = "idle"
    /\ fdOpen = FALSE
    /\ mapped2 = FALSE
    /\ created = FALSE
    /\ n_addr = 0
    /\ addr = 0

InitCreatePosix == variant = "posix" /\ InitCreate

InitCreateWin == variant = "windows" /\ InitCreate

\* State after NewSharedAtomicRingBuffer returned in main(): a fresh file of
\* SizeofRingBuffer zero bytes, mapped.
InitRing ==
    /\ buffer = ZeroBuffer
    /\ writeIdx = 0
    /\ readIdx = 0
    /\ InitProcs

\* An empty segment at any cursor position, its slots holding whatever
\* earlier laps left in them (the state between two calls once everything
\* written was read).
InitRoundTrip ==
    /\ variant = "posix"
    /\ \E p \in Slots : writeIdx = p /\ readIdx = p
    /\ buffer \in [Slots -> Values]
    /\ InitProcs

Init == variant = "posix" /\ InitRing

InitWin == variant = "windows" /\ InitRing

InitBoth == variant \in {"posix", "windows"} /\ InitRing

----------------------------------------------------------------------------
(* Write *)

\* Write(value): writeIdx := rb.writeIdx.Load(); nextWriteIdx := ...
WriteBegin ==
    /\ pcW = "idle"
    /\ Mapped
    /\ Len(written) < MaxWrites
    /\ \E v \in Values :
          /\ w_value' = v
          /\ written' = Append(written, v)
    /\ w_writeIdx' = writeIdx
    /\ w_nextWriteIdx' = NextIdx(writeIdx)
    /\ pcW' = "w_check"
    /\ UNCHANGED <<variant, ring, w_ret, consumer, unread, provider>>

\* Mutant of IsFull: the full check left out
IsFullNever(next, r) == FALSE

\* Mutant of IsFull: full reported one slot early
IsFullEarly(next, r) == next = r \/ (next + 1) % bufferSize = r

\* Mutant of IsFull: an empty ring taken for a full one as well
IsFullOrEmpty(next, r) == next = r \/ next = (r + 1) % bufferSize

\* Write's loop condition: nextWriteIdx == rb.readIdx.Load()
IsFull(next, r) == next = r

\* nextWriteIdx == rb.readIdx.Load(): full -> SpinWait, else go on to the store
WriteCheck ==
    /\ pcW = "w_check"
    /\ Mapped
    /\ pcW' = IF IsFull(w_nextWriteIdx, readIdx) THEN "w_spin" ELSE "w_store"
    /\ UNCHANGED <<variant, ring, w_writeIdx, w_nextWriteIdx, w_value, written,
                   w_ret, consumer, unread, provider>>

\* Mutant of SpinReturnPosix: `if` in place of `for`
SpinReturnOnce == "w_store"

\* Where Write continues when SpinWait(5us) returns.
\* File-backed build: `for` re-evaluates the condition.
SpinReturnPosix == "w_check"

\* Mutant of SpinReturnWindows: `for` in place of `if`
SpinReturnLoop == "w_check"

\* Paging-file-backed build: `if` falls through to the store.
SpinReturnWindows == "w_store"

\* SpinWait(5 * time.Microsecond) returns, file-backed build
WriteSpin ==
    /\ pcW = "w_spin"
    /\ variant = "posix"
    /\ pcW' = SpinReturnPosix
    /\ UNCHANGED <<variant, ring, w_writeIdx, w_nextWriteIdx, w_value, written,
                   w_ret, consumer, unread, provider>>

\* SpinWait(5 * time.Microsecond) returns, paging-file-backed build
WinWriteSpin ==
    /\ pcW = "w_spin"
    /\ variant = "windows"
    /\ pcW' = SpinReturnWindows
    /\ UNCHANGED <<variant, ring, w_writeIdx, w_nextWriteIdx, w_value, written,
                   w_ret, consumer, unread, provider>>

\* Mutant of WriteStore: the value stored at nextWriteIdx
WriteStoreNextSlot ==
    /\ pcW = "w_store"
    /\ Mapped
    /\ buffer' = [buffer EXCEPT ![w_nextWriteIdx] = w_value]
    /\ pcW' = "w_publish"
    /\ UNCHANGED <<variant, writeIdx, readIdx, w_writeIdx, w_nextWriteIdx,
                   w_value, written, w_ret, consumer, unread, provider>>

\* rb.buffer[writeIdx].Store(value)
WriteStore ==
    /\ pcW = "w_store"
    /\ Mapped
    /\ buffer' = [buffer EXCEPT ![w_writeIdx] = w_value]
    /\ pcW' = "w_publish"
    /\ UNCHANGED <<variant, writeIdx, readIdx, w_writeIdx, w_nextWriteIdx,
                   w_value, written, w_ret, consumer, unread, provider>>

\* rb.writeIdx.Store(nextWriteIdx); return true
WritePublish ==
    /\ pcW = "w_publish"
    /\ Mapped
    /\ writeIdx' = w_nextWriteIdx
    /\ unread' = unread \cup {w_writeIdx}
    /\ w_ret' = "true"
    /\ pcW' = "idle"
    /\ UNCHANGED <<variant, buffer, readIdx, w_writeIdx, w_nextWriteIdx,
                   w_value, written, consumer, provider>>

----------------------------------------------------------------------------
(* Read *)

\* Read(): readIdx := rb.readIdx.Load()
ReadBegin ==
    /\ pcR = "idle"
    /\ Mapped
    /\ r_readIdx' = readIdx
    /\ pcR' = "r_check"
    /\ UNCHANGED <<variant, ring, producer, r_value, got, r_ok, unread,
                   provider>>

\* Mutant of IsEmpty: the empty check left out
IsEmptyNever(r, w) == FALSE

\* Mutant of IsEmpty: the comparison inverted
IsEmptyInverted(r, w) == r # w

\* Read's loop condition: readIdx == rb.writeIdx.Load()
IsEmpty(r, w) == r = w

\* readIdx == rb.writeIdx.Load(): empty -> SpinWait, else go on to the load
ReadCheck ==
    /\ pcR = "r_check"
    /\ Mapped
    /\ pcR' = IF IsEmpty(r_readIdx, writeIdx) THEN "r_spin" ELSE "r_load"
    /\ UNCHANGED <<variant, ring, producer, r_readIdx, r_value, got, r_ok,
                   unread, provider>>

\* SpinWait(1 * time.Microsecond) returns; `for` re-evaluates the condition
ReadSpin ==
    /\ pcR = "r_spin"
    /\ pcR' = "r_check"
    /\ UNCHANGED <<variant, ring, producer, r_readIdx, r_value, got, r_ok,
                   unread, provider>>

\* value := rb.buffer[readIdx].Load()
ReadLoad ==
    /\ pcR = "r_load"
    /\ Mapped
    /\ r_value' = buffer[r_readIdx]
    /\ pcR' = "r_advance"
    /\ UNCHANGED <<variant, ring, producer, r_readIdx, got, r_ok, unread,
                   provider>>

\* Mutant of ReadAdvance: the consumed slot is zeroed as well
ReadAdvanceClearing ==
    /\ pcR = "r_advance"
    /\ Mapped
    /\ readIdx' = NextIdx(r_readIdx)
    /\ buffer' = [buffer EXCEPT ![r_readIdx] = 0]
    /\ got' = Append(got, r_value)
    /\ unread' = unread \ {r_readIdx}
    /\ r_ok' = "true"
    /\ pcR' = "idle"
    /\ UNCHANGED <<variant, writeIdx, producer, r_readIdx, r_value, provider>>

\* rb.readIdx.Store((readIdx + 1) % bufferSize); return value, true
ReadAdvance ==
    /\ pcR = "r_advance"
    /\ Mapped
    /\ readIdx' = NextIdx(r_readIdx)
    /\ got' = Append(got, r_value)
    /\ unread' = unread \ {r_readIdx}
    /\ r_ok' = "true"
    /\ pcR' = "idle"
    /\ UNCHANGED <<variant, buffer, writeIdx, producer, r_readIdx, r_value,
                   provider>>

----------------------------------------------------------------------------
(* NewSharedAtomicRingBuffer of the file-backed build, called by a second   *)
(* process with the name of the segment this process has created and mapped *)

\* os.OpenFile(shmPath, O_RDWR|O_CREATE|O_TRUNC, 0o666).  On success the
\* existing file is cut to length 0: its bytes are discarded, and read as
\* zero once the file is extended again.  On failure nothing has changed
\* and the error is returned.
NewOpen ==
    /\ pcN = "idle"
    /\ \E ok \in BOOLEAN :
          IF ok
          THEN /\ fileExists' = TRUE
               /\ created' = ~fileExists
               /\ fileSize' = 0
               /\ buffer' = ZeroBuffer
               /\ writeIdx' = 0
               /\ readIdx' = 0
               /\ fdOpen' = TRUE
               /\ pcN' = "ftruncate"
          ELSE /\ pcN' = "failed"
               /\ UNCHANGED <<ring, fileExists, fileSize, fdOpen, created>>
    /\ UNCHANGED <<variant, producer, consumer, unread, mapped2, n_addr, addr>>

\* syscall.Ftruncate(fd, size); on failure os.Remove(shmPath), the deferred
\* file.Close(), and the error is returned.
NewFtruncate ==
    /\ pcN = "ftruncate"
    /\ \E ok \in BOOLEAN :
          IF ok
          THEN /\ fileSize' = SizeofRingBuffer
               /\ pcN' = "mmap"
               /\ UNCHANGED <<fileExists, fdOpen>>
          ELSE /\ fileExists' = FALSE
               /\ fdOpen' = FALSE
               /\ pcN' = "failed"
               /\ UNCHANGED fileSize
    /\ UNCHANGED <<variant, ring, producer, consumer, unread, mapped2, created,
                   n_addr, addr>>

\* syscall.Mmap(fd, 0, size, PROT_READ|PROT_WRITE, MAP_SHARED); on failure
\* os.Remove(shmPath); either way the deferred file.Close() runs on return.
NewMmap ==
    /\ pcN = "mmap"
    /\ \E ok \in BOOLEAN :
          IF ok
          THEN /\ mapped2' = TRUE
               /\ pcN' = "done"
               /\ UNCHANGED fileExists
          ELSE /\ fileExists' = FALSE
               /\ pcN' = "failed"
               /\ UNCHANGED mapped2
    /\ fdOpen' = FALSE
    /\ UNCHANGED <<variant, ring, producer, consumer, unread, fileSize, created,
                   n_addr, addr>>

\* The steps of NewSharedAtomicRingBuffer
NewSharedAtomicRingBuffer == NewOpen \/ NewFtruncate \/ NewMmap

----------------------------------------------------------------------------
(* NewSharedAtomicRingBuffer and Close of the paging-file-backed build      *)

\* windows.CreateFileMapping(InvalidHandle, nil, PAGE_READWRITE, 0, size,
\* name), then `if err != nil { return nil, err }`.  Three outcomes: no
\* handle and an error; a new zero-filled object and no error; or, when the
\* name exists, a handle to the existing object together with the error
\* ERROR_ALREADY_EXISTS (the wrapper reports it as err while the handle is
\* valid).  The source returns on any error without closing the handle.
WinCreateFileMapping ==
    /\ pcN = "idle"
    /\ variant = "windows"
    /\ \E ok \in BOOLEAN :
          IF ~ok
          THEN /\ pcN' = "failed"
               /\ UNCHANGED <<ring, fileExists, fileSize, fdOpen, created>>
          ELSE IF fileExists
          THEN /\ fdOpen' = TRUE
               /\ pcN' = "failed"
               /\ UNCHANGED <<ring, fileExists, fileSize, created>>
          ELSE /\ fileExists' = TRUE
               /\ created' = TRUE
               /\ fileSize' = SizeofRingBufferWin
               /\ buffer' = ZeroBuffer
               /\ writeIdx' = 0
               /\ readIdx' = 0
               /\ fdOpen' = TRUE
               /\ pcN' = "mapview"
    /\ UNCHANGED <<variant, producer, consumer, unread, mapped2, n_addr, addr>>

\* windows.MapViewOfFile(fileMapping, FILE_MAP_ALL_ACCESS, 0, 0, size); on
\* failure windows.CloseHandle(fileMapping), which was the only handle of the
\* object this call created, so the object goes away.  On success the
\* address is cast to the ring buffer and returned; the handle stays open
\* and rb.addr is not assigned.
WinMapViewOfFile ==
    /\ pcN = "mapview"
    /\ \E ok \in BOOLEAN :
          IF ok
          THEN /\ \E a \in ViewAddrs : n_addr' = a
               /\ mapped2' = TRUE
               /\ pcN' = "done"
               /\ UNCHANGED <<fileExists, fileSize, fdOpen>>
          ELSE /\ fdOpen' = FALSE
               /\ fileExists' = FALSE
               /\ fileSize' = 0
               /\ pcN' = "failed"
               /\ UNCHANGED <<mapped2, n_addr>>
    /\ UNCHANGED <<variant, ring, producer, consumer, unread, created, addr>>

\* The address Close hands to UnmapViewOfFile: the field rb.addr
CloseArg == addr

\* Close(): windows.UnmapViewOfFile(rb.addr), result discarded.  The call
\* unmaps the view only when given the base address of a mapped view;
\* otherwise it fails and the view stays.
Close ==
    /\ pcN = "done"
    /\ variant = "windows"
    /\ mapped2' = IF CloseArg = n_addr THEN FALSE ELSE mapped2
    /\ pcN' = "closed"
    /\ UNCHANGED <<variant, ring, producer, consumer, unread, fileExists,
                   fileSize, fdOpen, created, n_addr, addr>>

\* An atomic Load or Store on the mapping while the file is shorter than the
\* mapping raises SIGBUS, which ends the process with both its goroutines.
Fault ==
    /\ ~Mapped
    /\ \/ pcW \in {"w_check", "w_store", "w_publish"}
       \/ (pcW = "idle" /\ Len(written) < MaxWrites)
       \/ pcR \in {"idle", "r_check", "r_load", "r_advance"}
    /\ pcW' = "crashed"
    /\ pcR' = "crashed"
    /\ UNCHANGED <<variant, ring, w_writeIdx, w_nextWriteIdx, w_value, written,
                   w_ret, r_readIdx, r_value, got, r_ok, unread, provider>>

----------------------------------------------------------------------------

\* The steps of Write, in either build
Write == WriteBegin \/ WriteCheck \/ WriteSpin \/ WinWriteSpin \/ WriteStore
            \/ WritePublish

\* The steps of Read
Read == ReadBegin \/ ReadCheck \/ ReadSpin \/ ReadLoad \/ ReadAdvance

\* main() of the file-backed build: one producer and one consumer goroutine
Next ==
    \/ WriteBegin \/ WriteCheck \/ WriteSpin \/ WriteStore \/ WritePublish
    \/ ReadBegin \/ ReadCheck \/ ReadSpin \/ ReadLoad \/ ReadAdvance

Spec == Init /\ [][Next]_vars

\* main() of the paging-file-backed build
NextWin ==
    \/ WriteBegin \/ WriteCheck \/ WinWriteSpin \/ WriteStore \/ WritePublish
    \/ ReadBegin \/ ReadCheck \/ ReadSpin \/ ReadLoad \/ ReadAdvance

\* The file-backed build with a consumer that keeps being scheduled: main's
\* consumer goroutine calls Read in an endless loop.
SpecLive == Init /\ [][Next]_vars /\ WF_vars(Read)

\* One Write and one Read on an empty segment of the file-backed build.  The
\* segment is empty and stays below full, so Write's SpinWait is not reached.
NextRoundTrip ==
    \/ (written = <<>> /\ WriteBegin)
    \/ WriteCheck \/ WriteStore \/ WritePublish
    \/ (got = <<>> /\ ReadBegin)
    \/ ReadCheck \/ ReadSpin \/ ReadLoad \/ ReadAdvance

SpecRoundTrip == InitRoundTrip /\ [][NextRoundTrip]_vars

\* main() of the file-backed build while a second process calls
\* NewSharedAtomicRingBuffer with the same name
NextAttach ==
    \/ WriteBegin \/ WriteCheck \/ WriteSpin \/ WriteStore \/ WritePublish
    \/ ReadBegin \/ ReadCheck \/ ReadSpin \/ ReadLoad \/ ReadAdvance
    \/ NewOpen \/ NewFtruncate \/ NewMmap
    \/ Fault

SpecAttach == Init /\ [][NextAttach]_vars

\* The file-backed build with both goroutines kept scheduled
SpecLiveBoth == Init /\ [][Next]_vars /\ WF_vars(Read) /\ WF_vars(Write)

SpecWin == InitWin /\ [][NextWin]_vars

\* main() of the file-backed build from its start: NewSharedAtomicRingBuffer,
\* then the two goroutines on the segment it returned
NextCreate ==
    \/ NewOpen \/ NewFtruncate \/ NewMmap
    \/ (pcN = "done" /\ Next)

SpecCreate == InitCreatePosix /\ [][NextCreate]_vars

\* main() of the paging-file-backed build from its start, with its deferred
\* Close
NextWinCreate ==
    \/ WinCreateFileMapping \/ WinMapViewOfFile \/ Close
    \/ (pcN = "done" /\ NextWin)

SpecWinCreate == InitCreateWin /\ [][NextWinCreate]_vars

\* Either build
NextBoth ==
    \/ WriteBegin \/ WriteCheck \/ WriteSpin \/ WinWriteSpin \/ WriteStore
    \/ WritePublish
    \/ ReadBegin \/ ReadCheck \/ ReadSpin \/ ReadLoad \/ ReadAdvance

SpecBoth == InitBoth /\ [][NextBoth]_vars

----------------------------------------------------------------------------
(* Derived quantities used by the properties *)

\* Number of Write calls that have stored the advanced writeIdx
Published == Len(written) - (IF pcW = "idle" THEN 0 ELSE 1)

\* Number of values published by Write and not yet returned by Read
InFlight == Published - Len(got)

IsPrefix(s, t) == Len(s) <= Len(t) /\ \A i \in 1 .. Len(s) : s[i] = t[i]

----------------------------------------------------------------------------
(* Properties *)

\* C1: in the file-backed build, with one producer and one consumer, the
\* sequence of values returned by Read is in every reachable state a prefix
\* of the sequence of values passed to Write (no reorder, duplicate, skip).
C1_FifoPrefix == IsPrefix(got, written)

\* C1 witness: more values than the ring has slots were delivered, not all
\* equal, so the cursors wrapped and order is observable.
C1_Witness ==
    /\ Len(got) > bufferSize
    /\ \E i, j \in 1 .. Len(got) : got[i] # got[j]

\* C2: in the file-backed build at most bufferSize - 1 values are written
\* and not yet read, and Write is never about to store into a slot that
\* holds a published value the consumer has not moved past.
C2_NoOverwrite ==
    /\ InFlight <= bufferSize - 1
    /\ Cardinality(unread) <= bufferSize - 1
    /\ (pcW = "w_store" => w_writeIdx \notin unread)

\* C2 witness: Write has stored into a slot for the second lap while every
\* other usable slot still holds an unread value.
C2_Witness ==
    /\ pcW = "w_publish"
    /\ Len(written) > bufferSize
    /\ Cardinality(unread) = bufferSize - 2

\* C8: in the file-backed build the number of values published and not yet
\* consumed equals (writeIdx - readIdx) mod bufferSize; so it is 0 iff
\* writeIdx = readIdx and bufferSize - 1 iff (writeIdx + 1) mod bufferSize
\* = readIdx.
C8_Occupancy ==
    /\ InFlight = (writeIdx - readIdx + bufferSize) % bufferSize
    /\ (InFlight = 0 <=> writeIdx = readIdx)
    /\ (InFlight = bufferSize - 1 <=> (writeIdx + 1) % bufferSize = readIdx)

\* C8 witness: the ring is full with the write cursor wrapped behind the
\* read cursor.
C8_Witness ==
    /\ InFlight = bufferSize - 1
    /\ writeIdx < readIdx

\* C3: in the paging-file-backed build Write checks fullness once: when its
\* single backoff ends it goes on to the slot store whatever readIdx is,
\* also when the ring is still full (the witness: an unread slot is then
\* overwritten and its value is lost).
C3_SingleCheckProceeds ==
    [][(pcW = "w_spin" /\ pcW' # pcW) =>
          (pcW' = "w_store" /\ UNCHANGED <<ring, w_writeIdx, w_nextWriteIdx>>)]_vars

\* C3 witness: the ring was full, the consumer has not read anything, Write
\* went on after its backoff, and the following Write has just stored over
\* slot 0, which held the first value written; that value differs from the
\* one now in the slot and no Read has returned it.
C3_Witness ==
    /\ pcW = "w_publish"
    /\ w_writeIdx \in unread
    /\ w_writeIdx = 0
    /\ got = <<>>
    /\ pcR = "idle"
    /\ Len(written) = bufferSize + 1
    /\ buffer[0] = w_value
    /\ written[1] # w_value

\* C4: in the file-backed build, under weak fairness of the consumer's
\* steps, the k-th value whose Write has completed is eventually the k-th
\* value returned by Read, for every k.
C4_EventuallyRead ==
    \A k \in 1 .. MaxWrites :
        (Published >= k) ~>
            (Len(got) >= k /\ Len(written) >= k /\ got[k] = written[k])

\* C4 witness: every Write of the run has completed and every value has
\* been returned, after the cursors wrapped.
C4_Witness ==
    /\ Published = MaxWrites
    /\ got = written
    /\ MaxWrites > bufferSize

\* C5: capacity boundary of the file-backed build.  Completed Writes never
\* exceed completed Reads by more than bufferSize - 1; a Write's full check
\* sends it to the backoff exactly when bufferSize - 1 values are in flight
\* and lets it through exactly when fewer are (so bufferSize - 1 Writes pass
\* with no Read, the next one blocks, and each completed Read lets exactly
\* one more Write through); and the values come out in the order written.
C5_CapacityBoundary ==
    /\ [](Published <= Len(got) + (bufferSize - 1))
    /\ [](IsPrefix(got, written))
    /\ [][(pcW = "w_check" /\ pcW' = "w_spin") => InFlight = bufferSize - 1]_vars
    /\ [][(pcW = "w_check" /\ pcW' = "w_store") => InFlight < bufferSize - 1]_vars

\* C5 witness: exactly one Read has completed, returning the first value
\* written, bufferSize Writes have completed, and the next Write is blocked
\* in its backoff with the ring full again.
C5_Witness ==
    /\ Len(got) = 1
    /\ got[1] = written[1]
    /\ Published = bufferSize
    /\ pcW = "w_spin"
    /\ Cardinality(unread) = bufferSize - 1

\* C6: round trip.  From an empty segment at any cursor position, Write(v)
\* does not block, and once the one Read has returned it returned exactly v,
\* the segment is empty again, and each cursor is the one loaded on entry
\* plus one modulo bufferSize.
C6_RoundTrip ==
    /\ pcW # "w_spin"
    /\ (Len(got) = 1 /\ pcR = "idle") =>
          /\ Len(written) = 1 /\ pcW = "idle"
          /\ got[1] = written[1]
          /\ writeIdx = readIdx
          /\ unread = {}
          /\ w_writeIdx = r_readIdx
          /\ writeIdx = (w_writeIdx + 1) % bufferSize
          /\ readIdx = (r_readIdx + 1) % bufferSize

\* C6 witness: the round trip ran with the cursors at the last slot, so both
\* wrapped to 0, and the value returned differs from what the slot held.
C6_Witness ==
    /\ Len(got) = 1 /\ pcR = "idle"
    /\ r_readIdx = bufferSize - 1
    /\ readIdx = 0
    /\ got[1] = MaxValue

\* C7: in both builds writeIdx and readIdx are within 0 .. bufferSize - 1 in
\* every reachable state, and every change of either cursor stores its
\* previous value plus one, reduced modulo bufferSize.
C7_CursorsInRange ==
    /\ [](writeIdx \in 0 .. (bufferSize - 1) /\ readIdx \in 0 .. (bufferSize - 1))
    /\ [][writeIdx' # writeIdx => writeIdx' = (writeIdx + 1) % bufferSize]_vars
    /\ [][readIdx' # readIdx => readIdx' = (readIdx + 1) % bufferSize]_vars

\* C7 witness: in the paging-file-backed build both cursors have gone once
\* round the ring and wrapped to 0.
C7_Witness ==
    /\ variant = "windows"
    /\ Published = bufferSize /\ writeIdx = 0
    /\ Len(got) = bufferSize /\ readIdx = 0

\* C9: single-writer discipline.  A step of Write (pcW changes) leaves
\* readIdx unchanged and changes no slot except, at the store, the slot at
\* the writeIdx loaded on entry; only the publish step changes writeIdx; a
\* step of Read (pcR changes) leaves writeIdx and every slot unchanged.
C9_SingleWriter ==
    /\ [](pcW # "idle" => w_writeIdx = writeIdx)
    /\ [][pcW' # pcW =>
            /\ readIdx' = readIdx
            /\ \A i \in Slots \ {w_writeIdx} : buffer'[i] = buffer[i]
            /\ (buffer' # buffer => pcW = "w_store")
            /\ (writeIdx' # writeIdx => pcW = "w_publish")]_vars
    /\ [][pcR' # pcR => (writeIdx' = writeIdx /\ buffer' = buffer)]_vars

\* C9 witness: Write has stored its value and Read has loaded one, in two
\* different slots, neither call having returned yet.
C9_Witness ==
    /\ pcW = "w_publish" /\ buffer[w_writeIdx] = w_value
    /\ pcR = "r_advance"
    /\ w_writeIdx # r_readIdx
    /\ Len(written) > bufferSize

\* C10: a step of NewSharedAtomicRingBuffer called by a second process on a
\* segment that exists and is in use leaves writeIdx, readIdx and every
\* written-but-unread slot as they were.
C10_AttachPreserves ==
    [][pcN' # pcN =>
          /\ writeIdx' = writeIdx
          /\ readIdx' = readIdx
          /\ \A i \in unread : buffer'[i] = buffer[i]]_vars

\* C11: when NewSharedAtomicRingBuffer has returned an error, the caller
\* holds no open handle and no mapping, and a backing artifact that this
\* call created no longer exists.
C11_FailureLeavesNothing ==
    pcN = "failed" =>
        /\ ~fdOpen
        /\ ~mapped2
        /\ (created => ~fileExists)

\* C12: after Close has been called once on the handle returned by
\* NewSharedAtomicRingBuffer, the view that call mapped is no longer mapped.
C12_CloseUnmaps == pcN = "closed" => ~mapped2

\* C13: the segment NewSharedAtomicRingBuffer has set up is exactly
\* bufferSize * 8 + 16 bytes long, which is also the size the file-backed
\* build computes.
C13_SegmentSize ==
    pcN = "done" =>
        /\ fileSize = bufferSize * 8 + 16
        /\ fileSize = SizeofRingBuffer

\* C18: after a successful first creation of a name, until the first Write
\* begins writeIdx = readIdx = 0 and every slot is 0, and until the first
\* Write has published no Read has returned or got past its empty check.
C18_FreshSegmentEmpty ==
    (pcN = "done" /\ created) =>
        /\ (written = <<>> =>
              (writeIdx = 0 /\ readIdx = 0 /\ buffer = ZeroBuffer))
        /\ (Published = 0 =>
              (got = <<>> /\ r_ok = "none"
                 /\ pcR \in {"idle", "r_check", "r_spin"}))

\* C18 witness: the name did not exist, the create succeeded, a Read was
\* started at once and is in its backoff, and the first Write has stored its
\* value but not yet published it.
C18_Witness ==
    /\ pcN = "done" /\ created
    /\ pcR = "r_spin"
    /\ pcW = "w_publish" /\ Len(written) = 1
    /\ buffer[0] = MaxValue
    /\ got = <<>>

\* C15: in the file-backed build Write's full check is a loop.  A check that
\* observes nextWriteIdx = readIdx goes to the backoff, and only a check
\* that observes them different goes on to the store; the backoff returns
\* to the check, which loads readIdx again; neither changes a slot or
\* writeIdx.  Write never returns false.
C15_WriteLoop ==
    /\ [][(pcW = "w_check" /\ pcW' # pcW) =>
            /\ UNCHANGED <<buffer, writeIdx>>
            /\ (pcW' = "w_spin" <=> w_nextWriteIdx = readIdx)
            /\ (pcW' = "w_store" <=> w_nextWriteIdx # readIdx)]_vars
    /\ [][(pcW = "w_spin" /\ pcW' # pcW) =>
            (pcW' = "w_check" /\ UNCHANGED <<buffer, writeIdx>>)]_vars
    /\ [][pcW' = "w_store" => pcW \in {"w_check", "w_store"}]_vars
    /\ [](w_ret # "false")

\* C15 witness: earlier Writes have returned true, and the current one has
\* observed the ring full and is in its backoff.
C15_Witness ==
    /\ pcW = "w_spin"
    /\ w_nextWriteIdx = readIdx
    /\ w_ret = "true"

\* C16: in both builds a Read check that observes readIdx = writeIdx goes to
\* the backoff and back to the check, changing neither readIdx nor a slot
\* and returning nothing; only a check that observes them different goes on
\* to load slots[readIdx], then stores (readIdx + 1) mod bufferSize into
\* readIdx and returns the loaded value with ok = true.
C16_ReadLoop ==
    /\ [](pcR # "idle" => r_readIdx = readIdx)
    /\ [][(pcR = "r_check" /\ pcR' # pcR) =>
            /\ UNCHANGED <<buffer, readIdx, got, r_ok>>
            /\ (pcR' = "r_spin" <=> r_readIdx = writeIdx)
            /\ (pcR' = "r_load" <=> r_readIdx # writeIdx)]_vars
    /\ [][(pcR = "r_spin" /\ pcR' # pcR) =>
            (pcR' = "r_check" /\ UNCHANGED <<buffer, readIdx, got, r_ok>>)]_vars
    /\ [][(pcR = "r_load" /\ pcR' # pcR) =>
            /\ pcR' = "r_advance"
            /\ r_value' = buffer[r_readIdx]
            /\ UNCHANGED <<buffer, readIdx, got, r_ok>>]_vars
    /\ [][(pcR = "r_advance" /\ pcR' # pcR) =>
            /\ pcR' = "idle"
            /\ readIdx' = (r_readIdx + 1) % bufferSize
            /\ got' = Append(got, r_value)
            /\ r_ok' = "true"
            /\ buffer' = buffer]_vars

\* C16 witness: in the paging-file-backed build Reads have returned values
\* with ok = true, and the current Read has observed the ring empty and is
\* in its backoff.
C16_Witness ==
    /\ variant = "windows"
    /\ pcR = "r_spin"
    /\ r_readIdx = writeIdx
    /\ r_ok = "true"
    /\ Len(got) > 1

\* C17: publish ordering of the file-backed build.  writeIdx changes only
\* once the slot at the old writeIdx holds the value of the current Write;
\* so a Read that has got past its empty check finds in slots[readIdx], and
\* loads, the value of the Write that published that slot.
C17_PublishOrder ==
    /\ [][writeIdx' # writeIdx =>
            /\ pcW = "w_publish"
            /\ buffer[writeIdx] = w_value
            /\ w_value = written[Len(written)]]_vars
    /\ [](pcR = "r_load" =>
            /\ Len(written) > Len(got)
            /\ buffer[r_readIdx] = written[Len(got) + 1])
    /\ [](pcR = "r_advance" =>
            /\ Len(written) > Len(got)
            /\ r_value = written[Len(got) + 1])

\* C17 witness: on the second lap Read has loaded a value that differs from
\* the value the same slot held on the first lap.
C17_Witness ==
    /\ pcR = "r_advance"
    /\ Len(got) >= bufferSize
    /\ r_value # written[Len(got) + 1 - bufferSize]

\* C19: in the file-backed build, with both goroutines kept scheduled and a
\* consumer that keeps calling Read, every Write call that has started
\* returns; and a Write that observes the ring full stays in its loop for
\* as long as readIdx does not change.
C19_WriteTerminates ==
    /\ (pcW # "idle") ~> (pcW = "idle")
    /\ [][(pcW \in {"w_check", "w_spin"} /\ w_nextWriteIdx = readIdx
              /\ readIdx' = readIdx)
            => pcW' \in {"w_check", "w_spin"}]_vars

\* C19 witness: every Write of the run has returned, more of them than the
\* ring can hold without a Read.
C19_Witness ==
    /\ pcW = "idle"
    /\ Published = MaxWrites
    /\ w_ret = "true"
    /\ MaxWrites > bufferSize - 1
    /\ Len(got) < MaxWrites

====
